---- MODULE Spec2Model ----
(***************************************************************************)
(* Model of the multi-source research agent of src/main.py: the eleven     *)
(* node functions, the edge topology handed to the graph builder, and the  *)
(* execution of the compiled graph by graph.invoke (supersteps: the tasks  *)
(* of a step run concurrently on the same input state, their updates are   *)
(* buffered and applied together when all of them have returned, and the   *)
(* nodes of the next step are those that have an edge from a node that     *)
(* just ran).  The providers of src/serp_web_operations.py and             *)
(* src/reddit_web_operations.py are modelled from their code; the HTTP     *)
(* responses and the language model's replies are nondeterministic inputs. *)
(***************************************************************************)
EXTENDS Integers, Sequences, FiniteSets, TLC

(***************************************************************************)
(* Python values.  Every value is a record of the same shape so that any   *)
(* two values can be compared: t is the type, s a text payload, l a list   *)
(* payload.  Absent stands for a key that is missing from the state dict.  *)
(***************************************************************************)
PyNone == [t |-> "none", s |-> "", l |-> <<>>]
Absent == [t |-> "absent", s |-> "", l |-> <<>>]
Str(x) == [t |-> "str", s |-> x, l |-> <<>>]
List(q) == [t |-> "list", s |-> "", l |-> q]
Dict(tag, q) == [t |-> "dict", s |-> tag, l |-> q]
PyInt(x) == [t |-> "int", s |-> x, l |-> <<>>]

\* Python truthiness (bool(v)); the dict tagged "" is the empty dict {}.
Truthy(v) ==
    CASE v.t = "none" -> FALSE
      [] v.t = "absent" -> FALSE
      [] v.t = "str" -> v.s # ""
      [] v.t = "list" -> Len(v.l) > 0
      [] v.t = "dict" -> v.s # ""
      [] v.t = "int" -> v.s # "0"

IsStr(v) == v.t = "str"
IsList(v) == v.t = "list"

\* Python str(v): a text is kept, anything else becomes its printed form.
PyStr(v) ==
    CASE v.t = "str" -> v
      [] v.t = "none" -> Str("None")
      [] v.t = "int" -> Str(v.s)
      [] v.t = "list" -> Str(IF Len(v.l) = 0 THEN "[]" ELSE "[...]")
      [] v.t = "dict" -> Str(IF v.s = "" THEN "{}" ELSE "{" \o v.s \o "}")
      [] v.t = "absent" -> Str("None")

\* state.get(k, d): the default only replaces a missing key, never a None.
Get(st, k, d) == IF st[k] = Absent THEN d ELSE st[k]

(***************************************************************************)
(* State (src/main.py:44-74) and the graph (src/main.py:383-422).          *)
(***************************************************************************)
Fields ==
    {"messages", "user_input",
     "google_results", "bing_results", "yandex_results", "reddit_results",
     "selected_reddit_urls", "reddit_post_data",
     "google_analysis", "bing_analysis", "yandex_analysis", "reddit_analysis",
     "final_answer"}

START == "__start__"
END == "__end__"

GatherNodes == {"google_search", "bing_search", "yandex_search", "reddit_search"}
AnalysisNodes ==
    {"analyze_google_results", "analyze_bing_results",
     "analyze_yandex_results", "analyze_reddit_results"}
Nodes ==
    GatherNodes \cup {"select_reddit_urls", "retrieve_reddit_posts"}
    \cup AnalysisNodes \cup {"synthesize_final_answer"}

\* Edge lists with one add_edge call miswritten, used to show that the checks
\* below depend on the declared topology.
\* yandex_search chained behind google_search instead of START:
EdgesChainedYandex ==
    {<<START, "google_search">>, <<START, "bing_search">>,
     <<"google_search", "yandex_search">>, <<START, "reddit_search">>,
     <<"google_search", "select_reddit_urls">>,
     <<"bing_search", "select_reddit_urls">>,
     <<"yandex_search", "select_reddit_urls">>,
     <<"reddit_search", "select_reddit_urls">>,
     <<"select_reddit_urls", "retrieve_reddit_posts">>,
     <<"retrieve_reddit_posts", "analyze_google_results">>,
     <<"retrieve_reddit_posts", "analyze_bing_results">>,
     <<"retrieve_reddit_posts", "analyze_yandex_results">>,
     <<"retrieve_reddit_posts", "analyze_reddit_results">>,
     <<"analyze_google_results", "synthesize_final_answer">>,
     <<"analyze_bing_results", "synthesize_final_answer">>,
     <<"analyze_yandex_results", "synthesize_final_answer">>,
     <<"analyze_reddit_results", "synthesize_final_answer">>,
     <<"synthesize_final_answer", END>>}

\* analyze_reddit_results chained behind analyze_google_results:
EdgesLateRedditAnalysis ==
    {<<START, "google_search">>, <<START, "bing_search">>,
     <<START, "yandex_search">>, <<START, "reddit_search">>,
     <<"google_search", "select_reddit_urls">>,
     <<"bing_search", "select_reddit_urls">>,
     <<"yandex_search", "select_reddit_urls">>,
     <<"reddit_search", "select_reddit_urls">>,
     <<"select_reddit_urls", "retrieve_reddit_posts">>,
     <<"retrieve_reddit_posts", "analyze_google_results">>,
     <<"retrieve_reddit_posts", "analyze_bing_results">>,
     <<"retrieve_reddit_posts", "analyze_yandex_results">>,
     <<"analyze_google_results", "analyze_reddit_results">>,
     <<"analyze_google_results", "synthesize_final_answer">>,
     <<"analyze_bing_results", "synthesize_final_answer">>,
     <<"analyze_yandex_results", "synthesize_final_answer">>,
     <<"analyze_reddit_results", "synthesize_final_answer">>,
     <<"synthesize_final_answer", END>>}

\* retrieve_reddit_posts wired to reddit_search instead of select_reddit_urls:
EdgesEarlyRetrieve ==
    {<<START, "google_search">>, <<START, "bing_search">>,
     <<START, "yandex_search">>, <<START, "reddit_search">>,
     <<"google_search", "select_reddit_urls">>,
     <<"bing_search", "select_reddit_urls">>,
     <<"yandex_search", "select_reddit_urls">>,
     <<"reddit_search", "select_reddit_urls">>,
     <<"reddit_search", "retrieve_reddit_posts">>,
     <<"retrieve_reddit_posts", "analyze_google_results">>,
     <<"retrieve_reddit_posts", "analyze_bing_results">>,
     <<"retrieve_reddit_posts", "analyze_yandex_results">>,
     <<"retrieve_reddit_posts", "analyze_reddit_results">>,
     <<"analyze_google_results", "synthesize_final_answer">>,
     <<"analyze_bing_results", "synthesize_final_answer">>,
     <<"analyze_yandex_results", "synthesize_final_answer">>,
     <<"analyze_reddit_results", "synthesize_final_answer">>,
     <<"synthesize_final_answer", END>>}

Edges ==
    {<<START, "google_search">>, <<START, "bing_search">>,
     <<START, "yandex_search">>, <<START, "reddit_search">>,
     <<"google_search", "select_reddit_urls">>,
     <<"bing_search", "select_reddit_urls">>,
     <<"yandex_search", "select_reddit_urls">>,
     <<"reddit_search", "select_reddit_urls">>,
     <<"select_reddit_urls", "retrieve_reddit_posts">>,
     <<"retrieve_reddit_posts", "analyze_google_results">>,
     <<"retrieve_reddit_posts", "analyze_bing_results">>,
     <<"retrieve_reddit_posts", "analyze_yandex_results">>,
     <<"retrieve_reddit_posts", "analyze_reddit_results">>,
     <<"analyze_google_results", "synthesize_final_answer">>,
     <<"analyze_bing_results", "synthesize_final_answer">>,
     <<"analyze_yandex_results", "synthesize_final_answer">>,
     <<"analyze_reddit_results", "synthesize_final_answer">>,
     <<"synthesize_final_answer", END>>}

(***************************************************************************)
(* Providers.  A call either returns a value or raises.                    *)
(***************************************************************************)
Ret(v) == [raised |-> FALSE, val |-> v]
Raise == [raised |-> TRUE, val |-> PyNone]

GOOGLE == "GOOGLE"
BING == "BING"
Yandex == "Yandex"
SearchEngine == {GOOGLE, BING, Yandex}

\* What _make_api_request can hand back: None (the request failed), an empty
\* JSON object, a JSON object with data.
HttpResponses == {PyNone, Dict("", <<>>), Dict("json", <<>>)}

\* serp_search(query, engine); url tells whether BRIGHT_DATA_API_URL is set,
\* http is the answer of _make_api_request.
serp_search(query, engine, url, http) ==
    IF engine \notin SearchEngine THEN Raise
    ELSE IF ~url THEN Raise
    ELSE IF ~Truthy(http) THEN Ret(PyNone)
    ELSE Ret(Dict("knowledge,organic", <<>>))

MAX_ATTEMPTS == 50

POSTS == "POSTS"
POST_COMMENTS == "POST_COMMENTS"

\* The HTTP side of one scrape job: the answer to the trigger request, the
\* number of status polls answered with a status that is neither ready nor
\* failed, the answer that follows them, and the snapshot download.
TriggerResponses == {"none", "empty", "nosnap", "ok"}
FinalStatuses == {"ready", "failed", "none"}
SnapshotResponses == {"none", "empty", "rows", "object"}
PendingPolls == {0, 1, MAX_ATTEMPTS - 1, MAX_ATTEMPTS}
Jobs ==
    [trigger : TriggerResponses, pending : PendingPolls,
     final : FinalStatuses, snapshot : SnapshotResponses]

ScrapRet(r, polls, fetches) ==
    [raised |-> r.raised, val |-> r.val, polls |-> polls, fetches |-> fetches]

\* _parse_reddit_data_collection_response / _parse_reddit_post_details_response
\* on the downloaded snapshot: a list of rows is parsed; a JSON object is
\* iterated key by key and .get on a key (a str) raises.
ParseSnapshot(op, snapshot) ==
    IF snapshot = "object" THEN Raise
    ELSE IF op = POSTS THEN Ret(Dict("parsed_posts", <<"u1", "u2">>))
    ELSE Ret(Dict("parsed_comments", <<"c1">>))

\* The polling loop of scrap_reddit from attempt number `attempt` on.
RECURSIVE PollLoop(_, _, _)
PollLoop(attempt, op, job) ==
    IF attempt >= MAX_ATTEMPTS THEN ScrapRet(Ret(PyNone), attempt, 0)
    ELSE IF attempt < job.pending THEN PollLoop(attempt + 1, op, job)
    ELSE IF job.final = "none" THEN ScrapRet(Ret(PyNone), attempt + 1, 0)
    ELSE IF job.final = "ready" THEN
        IF job.snapshot \in {"none", "empty"}
        THEN ScrapRet(Ret(PyNone), attempt + 1, 1)
        ELSE ScrapRet(ParseSnapshot(op, job.snapshot), attempt + 1, 1)
    ELSE ScrapRet(Ret(PyNone), attempt + 1, 0)

\* scrap_reddit(query, scrape_operation_type)
scrap_reddit(query, op, job) ==
    LET sent == \/ (op = POSTS /\ IsStr(query))
                \/ (op = POST_COMMENTS /\ IsList(query))
    IN  IF ~sent \/ job.trigger \in {"none", "empty"}
        THEN ScrapRet(Ret(PyNone), 0, 0)
        ELSE IF job.trigger = "nosnap" THEN ScrapRet(Ret(PyNone), 0, 0)
        ELSE PollLoop(0, op, job)

(***************************************************************************)
(* The language model.  llm.invoke returns a reply whose content is a text *)
(* (possibly empty) or raises.  The structured call of select_reddit_urls  *)
(* returns a RedditURLAnalysis ("model"), a raw mapping ("dict", v = Absent*)
(* when it has no selected_urls key), another object with a selected_urls  *)
(* attribute ("attr"), any other object ("other"), or raises.              *)
(***************************************************************************)
Msg(content) == [shape |-> "message", v |-> content]
LLMRaise == [shape |-> "raise", v |-> PyNone]
LLMReplies == {Msg(Str("answer")), Msg(Str("")), LLMRaise}

UrlValues ==
    {List(<<"u1", "u2">>), List(<<>>), PyNone, Str("u1"), PyInt("7"), Absent}
StructuredReplies ==
    {[shape |-> "model", v |-> List(<<"u1", "u2">>)],
     [shape |-> "model", v |-> List(<<>>)],
     [shape |-> "other", v |-> PyNone],
     LLMRaise}
    \cup [shape : {"dict", "attr"}, v : UrlValues]

\* The characters of the texts the model uses (list("u1") == ['u', '1']).
Chars(x) == IF x = "" THEN <<>> ELSE IF x = "u1" THEN <<"u", "1">> ELSE <<x>>

\* str(v) if v is not None else ""
Coerce(v) == IF v = PyNone THEN Str("") ELSE PyStr(v)

\* get_reddit_analysis_messages(...) as called by retrieve_reddit_posts: the
\* prompt is built, or building it raises.
PromptOutcomes == {"built", "raise"}

(***************************************************************************)
(* What a node call gives: the update it returns (a set of <<key, value>>  *)
(* pairs, one per key of the returned dict) or an exception, and the       *)
(* external calls it made: the provider calls with their arguments and     *)
(* results, and the replies of the language model, in order.               *)
(***************************************************************************)
Out(upd, serp, scrap, llm) ==
    [raised |-> FALSE, upd |-> upd, serp |-> serp, scrap |-> scrap, llm |-> llm,
     prompt |-> <<>>]
Exc(serp, scrap, llm) ==
    [raised |-> TRUE, upd |-> {}, serp |-> serp, scrap |-> scrap, llm |-> llm,
     prompt |-> <<>>]
\* The same result with the outcomes of the prompt builders called on the way.
WithPrompt(r, p) == [r EXCEPT !.prompt = p]
SerpCall(q, e, r) == [query |-> q, engine |-> e, ret |-> r]
ScrapCall(q, op, r) ==
    [query |-> q, op |-> op, ret |-> [raised |-> r.raised, val |-> r.val]]

\* SerpNode with the guard `if user_input is None` in place of
\* `if not user_input`.
SerpNodeNoneOnly(st, key, engine, url, http) ==
    LET user_input == Get(st, "user_input", PyNone)
        r == serp_search(user_input, engine, url, http)
    IN  IF user_input = PyNone THEN Out({<<key, Str("")>>}, <<>>, <<>>, <<>>)
        ELSE IF r.raised THEN Exc(<<SerpCall(user_input, engine, r)>>, <<>>, <<>>)
        ELSE Out({<<key, r.val>>}, <<SerpCall(user_input, engine, r)>>, <<>>, <<>>)

\* The three web-search nodes differ in their key and engine only.
SerpNode(st, key, engine, url, http) ==
    LET user_input == Get(st, "user_input", PyNone)
        r == serp_search(user_input, engine, url, http)
    IN  IF ~Truthy(user_input) THEN Out({<<key, Str("")>>}, <<>>, <<>>, <<>>)
        ELSE IF r.raised THEN Exc(<<SerpCall(user_input, engine, r)>>, <<>>, <<>>)
        ELSE Out({<<key, r.val>>}, <<SerpCall(user_input, engine, r)>>, <<>>, <<>>)

\* google_search returning its result under the key of bing_search.
GoogleSearchWritesBingKey(st, url, http) ==
    SerpNode(st, "bing_results", GOOGLE, url, http)

\* google_search with the provider call wrapped in try/except, returning "".
GoogleSearchSwallowsError(st, url, http) ==
    LET r == SerpNode(st, "google_results", GOOGLE, url, http)
    IN  IF r.raised THEN Out({<<"google_results", Str("")>>}, r.serp, <<>>, <<>>)
        ELSE r

google_search(st, url, http) == SerpNode(st, "google_results", GOOGLE, url, http)

\* bing_search calling serp_search with the default engine.
BingSearchWithGoogleEngine(st, url, http) ==
    SerpNode(st, "bing_results", GOOGLE, url, http)

bing_search(st, url, http) == SerpNode(st, "bing_results", BING, url, http)

\* yandex_search returning its result under the key of google_search.
YandexSearchWritesGoogleKey(st, url, http) ==
    SerpNode(st, "google_results", Yandex, url, http)

yandex_search(st, url, http) == SerpNode(st, "yandex_results", Yandex, url, http)

\* reddit_search without its `if not user_input` guard.
RedditSearchNoGuard(st, job) ==
    LET user_input == Get(st, "user_input", PyNone)
        r == scrap_reddit(user_input, POSTS, job)
    IN  IF r.raised THEN Exc(<<>>, <<ScrapCall(user_input, POSTS, r)>>, <<>>)
        ELSE Out({<<"reddit_results", r.val>>},
                 <<>>, <<ScrapCall(user_input, POSTS, r)>>, <<>>)

\* reddit_search returning a cleared user_input next to its results.
RedditSearchRewritesUserInput(st, job) ==
    LET user_input == Get(st, "user_input", PyNone)
        r == scrap_reddit(user_input, POSTS, job)
    IN  IF ~Truthy(user_input)
        THEN Out({<<"reddit_results", Str("")>>, <<"user_input", Str("")>>},
                 <<>>, <<>>, <<>>)
        ELSE IF r.raised THEN Exc(<<>>, <<ScrapCall(user_input, POSTS, r)>>, <<>>)
        ELSE Out({<<"reddit_results", r.val>>, <<"user_input", Str("")>>},
                 <<>>, <<ScrapCall(user_input, POSTS, r)>>, <<>>)

reddit_search(st, job) ==
    LET user_input == Get(st, "user_input", PyNone)
        r == scrap_reddit(user_input, POSTS, job)
    IN  IF ~Truthy(user_input) THEN Out({<<"reddit_results", Str("")>>}, <<>>, <<>>, <<>>)
        ELSE IF r.raised THEN Exc(<<>>, <<ScrapCall(user_input, POSTS, r)>>, <<>>)
        ELSE Out({<<"reddit_results", r.val>>},
                 <<>>, <<ScrapCall(user_input, POSTS, r)>>, <<>>)

\* Extracted without the isinstance(analysis, dict) branch: a raw mapping
\* has no selected_urls attribute and counts as an unexpected reply.
ExtractedIgnoresMapping(reply) ==
    CASE reply.shape = "model" -> reply.v
      [] reply.shape = "attr" -> Get([selected_urls |-> reply.v], "selected_urls", List(<<>>))
      [] OTHER -> List(<<>>)

\* The value select_reddit_urls takes out of the structured reply.
Extracted(reply) ==
    CASE reply.shape = "dict" -> Get([selected_urls |-> reply.v], "selected_urls", List(<<>>))
      [] reply.shape = "model" -> reply.v
      [] reply.shape = "attr" -> Get([selected_urls |-> reply.v], "selected_urls", List(<<>>))
      [] OTHER -> List(<<>>)

\* select_reddit_urls without the guard of line 135.
SelectRedditUrlsNoGuard(st, reply) ==
    LET v == Extracted(reply)
    IN  IF reply.shape = "raise"
        THEN Out({<<"selected_reddit_urls", List(<<>>)>>}, <<>>, <<>>, <<reply>>)
        ELSE IF IsList(v) THEN Out({<<"selected_reddit_urls", v>>}, <<>>, <<>>, <<reply>>)
        ELSE IF v = PyNone
        THEN Out({<<"selected_reddit_urls", List(<<>>)>>}, <<>>, <<>>, <<reply>>)
        ELSE IF IsStr(v)
        THEN Out({<<"selected_reddit_urls", List(Chars(v.s))>>}, <<>>, <<>>, <<reply>>)
        ELSE Out({<<"selected_reddit_urls", v>>}, <<>>, <<>>, <<reply>>)

\* select_reddit_urls calling the structured model a second time when the
\* first call raised.
SelectRedditUrlsRetries(st, reply) ==
    LET user_input == Get(st, "user_input", Str(""))
        reddit_results == Get(st, "reddit_results", PyNone)
        v == Extracted(reply)
    IN  IF ~IsStr(user_input) \/ ~Truthy(reddit_results)
        THEN Out({<<"selected_reddit_urls", List(<<>>)>>}, <<>>, <<>>, <<>>)
        ELSE IF reply.shape = "raise"
        THEN Out({<<"selected_reddit_urls", List(<<>>)>>}, <<>>, <<>>, <<reply, reply>>)
        ELSE IF IsList(v) THEN Out({<<"selected_reddit_urls", v>>}, <<>>, <<>>, <<reply>>)
        ELSE IF v = PyNone
        THEN Out({<<"selected_reddit_urls", List(<<>>)>>}, <<>>, <<>>, <<reply>>)
        ELSE IF IsStr(v)
        THEN Out({<<"selected_reddit_urls", List(Chars(v.s))>>}, <<>>, <<>>, <<reply>>)
        ELSE Out({<<"selected_reddit_urls", v>>}, <<>>, <<>>, <<reply>>)

\* select_reddit_urls without its try/except: a failing call leaves the node.
SelectRedditUrlsPropagates(st, reply) ==
    LET user_input == Get(st, "user_input", Str(""))
        reddit_results == Get(st, "reddit_results", PyNone)
        v == Extracted(reply)
    IN  IF ~IsStr(user_input) \/ ~Truthy(reddit_results)
        THEN Out({<<"selected_reddit_urls", List(<<>>)>>}, <<>>, <<>>, <<>>)
        ELSE IF reply.shape = "raise" THEN Exc(<<>>, <<>>, <<reply>>)
        ELSE IF IsList(v) THEN Out({<<"selected_reddit_urls", v>>}, <<>>, <<>>, <<reply>>)
        ELSE IF v = PyNone
        THEN Out({<<"selected_reddit_urls", List(<<>>)>>}, <<>>, <<>>, <<reply>>)
        ELSE IF IsStr(v)
        THEN Out({<<"selected_reddit_urls", List(Chars(v.s))>>}, <<>>, <<>>, <<reply>>)
        ELSE Exc(<<>>, <<>>, <<reply>>)

select_reddit_urls(st, reply) ==
    LET user_input == Get(st, "user_input", Str(""))
        reddit_results == Get(st, "reddit_results", PyNone)
        v == Extracted(reply)
    IN  IF ~IsStr(user_input) \/ ~Truthy(reddit_results)
        THEN Out({<<"selected_reddit_urls", List(<<>>)>>}, <<>>, <<>>, <<>>)
        ELSE IF reply.shape = "raise"
        THEN Out({<<"selected_reddit_urls", List(<<>>)>>}, <<>>, <<>>, <<reply>>)
        ELSE IF IsList(v) THEN Out({<<"selected_reddit_urls", v>>}, <<>>, <<>>, <<reply>>)
        ELSE IF v = PyNone
        THEN Out({<<"selected_reddit_urls", List(<<>>)>>}, <<>>, <<>>, <<reply>>)
        ELSE IF IsStr(v)
        THEN Out({<<"selected_reddit_urls", List(Chars(v.s))>>}, <<>>, <<>>, <<reply>>)
        \* list(v) raises TypeError on a value that is not iterable; the
        \* except clause falls through to the last return with v unchanged.
        ELSE Out({<<"selected_reddit_urls", v>>}, <<>>, <<>>, <<reply>>)

\* main.scrap_reddit as retrieve_reddit_posts finds it: the function of
\* src/reddit_web_operations.py or, in a direct call by the tests, a mock
\* patched in its place; the mock modelled here returns a result with an
\* empty parsed_comments list, which the function itself never returns.
MockedEmptyComments ==
    [trigger |-> "mock", pending |-> 0, final |-> "none", snapshot |-> "none"]
CommentsProvider(urls, job) ==
    IF job = MockedEmptyComments
    THEN ScrapRet(Ret(Dict("parsed_comments", <<>>)), 0, 0)
    ELSE scrap_reddit(urls, POST_COMMENTS, job)

\* The retrieval path without the `if reddit_post_data` test of line 202.
RetrievalPathNoDataCheck(urls, job, prompt, reply, caught) ==
    LET r == CommentsProvider(urls, job)
        call == <<ScrapCall(urls, POST_COMMENTS, r)>>
        reddit_post_data ==
            IF r.val.t = "dict" /\ r.val.s = "parsed_comments"
            THEN List(r.val.l) ELSE List(<<>>)
        empty == {<<"reddit_post_data", Str("")>>}
        failed(llm) == IF caught THEN Out(empty, <<>>, call, llm)
                       ELSE Exc(<<>>, call, llm)
    IN  IF r.raised THEN failed(<<>>)
        ELSE IF ~Truthy(r.val)
        THEN Out(empty, <<>>, call, <<>>)
        ELSE IF prompt = "raise" THEN WithPrompt(failed(<<>>), <<prompt>>)
        ELSE IF reply.shape = "raise" THEN WithPrompt(failed(<<reply>>), <<prompt>>)
        ELSE WithPrompt(Out({<<"reddit_post_data", PyStr(reply.v)>>},
                            <<>>, call, <<reply>>), <<prompt>>)

\* The retrieval path of retrieve_reddit_posts (src/main.py:196-206), entered
\* with a non-empty list of URLs; `caught` tells whether the except clause
\* of the node is there.
RetrievalPath(urls, job, prompt, reply, caught) ==
    LET r == CommentsProvider(urls, job)
        call == <<ScrapCall(urls, POST_COMMENTS, r)>>
        reddit_post_data ==
            IF r.val.t = "dict" /\ r.val.s = "parsed_comments"
            THEN List(r.val.l) ELSE List(<<>>)
        empty == {<<"reddit_post_data", Str("")>>}
        failed(llm) == IF caught THEN Out(empty, <<>>, call, llm)
                       ELSE Exc(<<>>, call, llm)
    IN  IF r.raised THEN failed(<<>>)
        ELSE IF ~Truthy(r.val) \/ ~Truthy(reddit_post_data)
        THEN Out(empty, <<>>, call, <<>>)
        ELSE IF prompt = "raise" THEN WithPrompt(failed(<<>>), <<prompt>>)
        ELSE IF reply.shape = "raise" THEN WithPrompt(failed(<<reply>>), <<prompt>>)
        ELSE WithPrompt(Out({<<"reddit_post_data", PyStr(reply.v)>>},
                            <<>>, call, <<reply>>), <<prompt>>)

\* retrieve_reddit_posts with `if selected_reddit_urls is not None` as guard.
RetrieveRedditPostsNoneOnly(st, job, prompt, reply) ==
    LET selected_reddit_urls == Get(st, "selected_reddit_urls", PyNone)
    IN  IF selected_reddit_urls = PyNone
        THEN Out({<<"reddit_post_data", Str("")>>}, <<>>, <<>>, <<>>)
        ELSE RetrievalPath(selected_reddit_urls, job, prompt, reply, TRUE)

\* retrieve_reddit_posts without its try/except.
RetrieveRedditPostsUncaught(st, job, prompt, reply) ==
    LET selected_reddit_urls == Get(st, "selected_reddit_urls", PyNone)
    IN  IF ~(Truthy(selected_reddit_urls) /\ IsList(selected_reddit_urls))
        THEN Out({<<"reddit_post_data", Str("")>>}, <<>>, <<>>, <<>>)
        ELSE RetrievalPath(selected_reddit_urls, job, prompt, reply, FALSE)

retrieve_reddit_posts(st, job, prompt, reply) ==
    LET selected_reddit_urls == Get(st, "selected_reddit_urls", PyNone)
    IN  IF ~(Truthy(selected_reddit_urls) /\ IsList(selected_reddit_urls))
        THEN Out({<<"reddit_post_data", Str("")>>}, <<>>, <<>>, <<>>)
        ELSE RetrievalPath(selected_reddit_urls, job, prompt, reply, TRUE)

analyze_google_results(st, reply) ==
    LET user_input == Get(st, "user_input", Str(""))
        google_results == Get(st, "google_results", PyNone)
    IN  IF ~Truthy(user_input) \/ ~Truthy(google_results)
        THEN Out({<<"google_analysis", Str("")>>}, <<>>, <<>>, <<>>)
        ELSE IF reply.shape = "raise" THEN Exc(<<>>, <<>>, <<reply>>)
        ELSE Out({<<"google_analysis", reply.v>>}, <<>>, <<>>, <<reply>>)

analyze_bing_results(st, reply) ==
    LET bing_results == Coerce(Get(st, "bing_results", Str("")))
    IN  IF ~Truthy(bing_results)
        THEN Out({<<"bing_analysis", Str("")>>}, <<>>, <<>>, <<>>)
        ELSE IF reply.shape = "raise" THEN Exc(<<>>, <<>>, <<reply>>)
        ELSE Out({<<"bing_analysis", PyStr(reply.v)>>}, <<>>, <<>>, <<reply>>)

analyze_yandex_results(st, reply) ==
    LET yandex_results == Coerce(Get(st, "yandex_results", Str("")))
    IN  IF ~Truthy(yandex_results)
        THEN Out({<<"yandex_analysis", Str("")>>}, <<>>, <<>>, <<>>)
        ELSE IF reply.shape = "raise" THEN Exc(<<>>, <<>>, <<reply>>)
        ELSE Out({<<"yandex_analysis", PyStr(reply.v)>>}, <<>>, <<>>, <<reply>>)

\* analyze_reddit_results guarding on reddit_results, not reddit_post_data.
AnalyzeRedditGuardsOnResults(st, reply) ==
    LET reddit_results == Get(st, "reddit_results", PyNone)
        reddit_post_data == Get(st, "reddit_post_data", PyNone)
    IN  IF ~Truthy(reddit_results)
        THEN Out({<<"reddit_analysis", Str("")>>}, <<>>, <<>>, <<>>)
        ELSE IF reddit_post_data.t = "int" THEN Exc(<<>>, <<>>, <<>>)
        ELSE IF reply.shape = "raise" THEN Exc(<<>>, <<>>, <<reply>>)
        ELSE Out({<<"reddit_analysis", reply.v>>}, <<>>, <<>>, <<reply>>)

analyze_reddit_results(st, reply) ==
    LET reddit_post_data == Get(st, "reddit_post_data", PyNone)
    IN  IF ~Truthy(reddit_post_data)
        THEN Out({<<"reddit_analysis", Str("")>>}, <<>>, <<>>, <<>>)
        \* list(reddit_post_data) raises on a value that is not iterable
        ELSE IF reddit_post_data.t = "int" THEN Exc(<<>>, <<>>, <<>>)
        ELSE IF reply.shape = "raise" THEN Exc(<<>>, <<>>, <<reply>>)
        ELSE Out({<<"reddit_analysis", reply.v>>}, <<>>, <<>>, <<reply>>)

AnalysisKeys ==
    {"google_analysis", "bing_analysis", "yandex_analysis", "reddit_analysis"}

\* synthesize_final_answer converting with str(v) alone, None included.
SynthesizeStrOfNone(st, reply) ==
    LET analyses == [k \in AnalysisKeys |-> PyStr(Get(st, k, Str("")))]
    IN  IF ~(\E k \in AnalysisKeys : Truthy(analyses[k]))
        THEN Out({<<"final_answer", Str("")>>}, <<>>, <<>>, <<>>)
        ELSE IF reply.shape = "raise" THEN Exc(<<>>, <<>>, <<reply>>)
        ELSE Out({<<"final_answer", PyStr(reply.v)>>}, <<>>, <<>>, <<reply>>)

\* synthesize_final_answer with all(...) in place of any(...).
SynthesizeNeedsAllAnalyses(st, reply) ==
    LET analyses == [k \in AnalysisKeys |-> Coerce(Get(st, k, Str("")))]
    IN  IF ~(\A k \in AnalysisKeys : Truthy(analyses[k]))
        THEN Out({<<"final_answer", Str("")>>}, <<>>, <<>>, <<>>)
        ELSE IF reply.shape = "raise" THEN Exc(<<>>, <<>>, <<reply>>)
        ELSE Out({<<"final_answer", PyStr(reply.v)>>}, <<>>, <<>>, <<reply>>)

synthesize_final_answer(st, reply) ==
    LET analyses == [k \in AnalysisKeys |-> Coerce(Get(st, k, Str("")))]
    IN  IF ~(\E k \in AnalysisKeys : Truthy(analyses[k]))
        THEN Out({<<"final_answer", Str("")>>}, <<>>, <<>>, <<>>)
        ELSE IF reply.shape = "raise" THEN Exc(<<>>, <<>>, <<reply>>)
        ELSE Out({<<"final_answer", PyStr(reply.v)>>}, <<>>, <<>>, <<reply>>)

(***************************************************************************)
(* The field each node returns and the fields it reads with state.get.     *)
(***************************************************************************)
Owned(n) ==
    CASE n = "google_search" -> "google_results"
      [] n = "bing_search" -> "bing_results"
      [] n = "yandex_search" -> "yandex_results"
      [] n = "reddit_search" -> "reddit_results"
      [] n = "select_reddit_urls" -> "selected_reddit_urls"
      [] n = "retrieve_reddit_posts" -> "reddit_post_data"
      [] n = "analyze_google_results" -> "google_analysis"
      [] n = "analyze_bing_results" -> "bing_analysis"
      [] n = "analyze_yandex_results" -> "yandex_analysis"
      [] n = "analyze_reddit_results" -> "reddit_analysis"
      [] n = "synthesize_final_answer" -> "final_answer"

Reads(n) ==
    CASE n \in GatherNodes -> {"user_input"}
      [] n = "select_reddit_urls" -> {"user_input", "reddit_results"}
      [] n = "retrieve_reddit_posts" ->
            {"user_input", "reddit_results", "selected_reddit_urls"}
      [] n = "analyze_google_results" -> {"user_input", "google_results"}
      [] n = "analyze_bing_results" -> {"user_input", "bing_results"}
      [] n = "analyze_yandex_results" -> {"user_input", "yandex_results"}
      [] n = "analyze_reddit_results" ->
            {"user_input", "reddit_results", "reddit_post_data"}
      [] n = "synthesize_final_answer" -> {"user_input"} \cup AnalysisKeys

(***************************************************************************)
(* Program state.                                                          *)
(*   mode    "graph": a run of graph.invoke from start_chatbot, the first  *)
(*           of the session; "again": a run that follows another one;      *)
(*           "unit": one node function called on a state of its own, as    *)
(*           the tests of src/tests do                                     *)
(*   envUrl  whether BRIGHT_DATA_API_URL is set in the environment         *)
(*   state   the State dict of the run (the values of the channels)        *)
(*   pc      per node: idle, ready (a task of this step, not started),     *)
(*           running, done (returned), raised                              *)
(*   writes  per node: the update it returned in this step, not yet applied*)
(*   run     running, done (END reached, invoke returned), crashed (an     *)
(*           exception left invoke), exited (the loop of start_chatbot was *)
(*           left)                                                         *)
(*   runs    per node: how many times it was started in the current run    *)
(*   calls   per node: the external calls it made, with their results, and  *)
(*           the outcomes of the prompt builders logged on the way          *)
(*   nwrites per field: how many times an update was applied to it in the  *)
(*           current run                                                   *)
(*   scrape  one call of scrap_reddit followed request by request (mode     *)
(*           "scrape"); idle otherwise                                      *)
(***************************************************************************)
VARIABLES mode, envUrl, state, pc, writes, run, runs, calls, nwrites, scrape

vars == <<mode, envUrl, state, pc, writes, run, runs, calls, nwrites, scrape>>

\* scrape: where the call is (phase), its arguments, the loop counter, the
\* numbers of trigger requests, status polls and snapshot downloads made so
\* far, the answer to the trigger request ("unsent" before it), whether a
\* poll reported ready or failed or got no answer (lost), and what the call
\* returned.
ScrapeJob(phase, op, query) ==
    [phase |-> phase, op |-> op, query |-> query, attempt |-> 0,
     requests |-> 0, polls |-> 0, fetches |-> 0, trigger |-> "unsent",
     ready |-> FALSE, failed |-> FALSE, lost |-> FALSE, result |-> Ret(PyNone)]
IdleJob == ScrapeJob("idle", POSTS, PyNone)

NoCalls == [serp |-> <<>>, scrap |-> <<>>, llm |-> <<>>, prompt |-> <<>>]

\* The nodes with an edge from one of `from`.
Successors(from) == {m \in Nodes : \E n \in from : <<n, m>> \in Edges}

\* initial_state of start_chatbot (src/main.py:430-444)
InitialState(user_input) ==
    [f \in Fields |->
        IF f = "user_input" THEN user_input
        ELSE IF f = "messages" THEN List(<<>>)
        ELSE PyNone]

\* input() hands start_chatbot a text, empty or not.
UserInputs == {Str(""), Str("q")}

Init ==
    /\ mode = "graph"
    /\ envUrl \in BOOLEAN
    /\ \E u \in UserInputs : state = InitialState(u)
    /\ pc = [n \in Nodes |-> IF n \in Successors({START}) THEN "ready" ELSE "idle"]
    /\ writes = [n \in Nodes |-> {}]
    /\ run = "running"
    /\ runs = [n \in Nodes |-> 0]
    /\ calls = [n \in Nodes |-> NoCalls]
    /\ nwrites = [f \in Fields |-> 0]
    /\ scrape = IdleJob

\* A task of the step is handed to the executor.  Tasks not yet started
\* when another task raises are cancelled.
StartTask(n) ==
    /\ run = "running"
    /\ pc[n] = "ready"
    /\ pc' = [pc EXCEPT ![n] = "running"]
    /\ runs' = [runs EXCEPT ![n] = @ + 1]
    /\ UNCHANGED <<mode, envUrl, state, writes, run, calls, nwrites, scrape>>

\* Node n returns r: its update is buffered; an exception ends the run.
Finish(n, r) ==
    /\ pc[n] = "running"
    /\ pc' = [pc EXCEPT ![n] = IF r.raised THEN "raised" ELSE "done"]
    /\ writes' = [writes EXCEPT ![n] = r.upd]
    /\ calls' = [calls EXCEPT ![n] =
            [serp |-> @.serp \o r.serp, scrap |-> @.scrap \o r.scrap,
             llm |-> @.llm \o r.llm, prompt |-> @.prompt \o r.prompt]]
    /\ run' = IF r.raised THEN "crashed" ELSE run
    /\ UNCHANGED <<mode, envUrl, state, runs, nwrites, scrape>>

GoogleSearch ==
    \E http \in HttpResponses :
        Finish("google_search", google_search(state, envUrl, http))

BingSearch ==
    \E http \in HttpResponses :
        Finish("bing_search", bing_search(state, envUrl, http))

YandexSearch ==
    \E http \in HttpResponses :
        Finish("yandex_search", yandex_search(state, envUrl, http))

RedditSearch ==
    \E job \in Jobs : Finish("reddit_search", reddit_search(state, job))

SelectRedditUrls ==
    \E reply \in StructuredReplies :
        Finish("select_reddit_urls", select_reddit_urls(state, reply))

RetrieveRedditPosts ==
    \E job \in Jobs \cup (IF mode = "unit" THEN {MockedEmptyComments} ELSE {}),
       prompt \in PromptOutcomes, reply \in LLMReplies :
        Finish("retrieve_reddit_posts",
               retrieve_reddit_posts(state, job, prompt, reply))

AnalyzeGoogleResults ==
    \E reply \in LLMReplies :
        Finish("analyze_google_results", analyze_google_results(state, reply))

AnalyzeBingResults ==
    \E reply \in LLMReplies :
        Finish("analyze_bing_results", analyze_bing_results(state, reply))

AnalyzeYandexResults ==
    \E reply \in LLMReplies :
        Finish("analyze_yandex_results", analyze_yandex_results(state, reply))

AnalyzeRedditResults ==
    \E reply \in LLMReplies :
        Finish("analyze_reddit_results", analyze_reddit_results(state, reply))

SynthesizeFinalAnswer ==
    \E reply \in LLMReplies :
        Finish("synthesize_final_answer", synthesize_final_answer(state, reply))

Keys(upd) == {p[1] : p \in upd}

\* The end of a step: every task has returned.  The buffered updates are
\* applied (two updates of one key in the same step are an error), and the
\* nodes with an edge from a node that ran make the next step; with none
\* left, invoke returns the state.
ApplyWrites ==
    LET ran == {n \in Nodes : pc[n] = "done"}
        all == UNION {writes[n] : n \in ran}
        conflict == \E n, m \in ran : n # m /\ Keys(writes[n]) \cap Keys(writes[m]) # {}
        next == IF mode = "unit" THEN {} ELSE Successors(ran)
    IN  /\ run = "running"
        /\ ran # {}
        /\ \A n \in Nodes : pc[n] \in {"idle", "done"}
        /\ IF conflict
           THEN /\ run' = "crashed"
                /\ UNCHANGED <<state, pc, writes, nwrites>>
           ELSE /\ state' = [f \in Fields |->
                        IF f \in Keys(all)
                        THEN (CHOOSE p \in all : p[1] = f)[2]
                        ELSE state[f]]
                /\ nwrites' = [f \in Fields |->
                        IF f \in Keys(all) THEN nwrites[f] + 1 ELSE nwrites[f]]
                /\ pc' = [n \in Nodes |-> IF n \in next THEN "ready" ELSE "idle"]
                /\ writes' = [n \in Nodes |-> {}]
                /\ run' = IF next = {} THEN "done" ELSE "running"
        /\ UNCHANGED <<mode, envUrl, runs, calls, scrape>>

Next ==
    \/ \E n \in Nodes : StartTask(n)
    \/ GoogleSearch
    \/ BingSearch
    \/ YandexSearch
    \/ RedditSearch
    \/ SelectRedditUrls
    \/ RetrieveRedditPosts
    \/ AnalyzeGoogleResults
    \/ AnalyzeBingResults
    \/ AnalyzeYandexResults
    \/ AnalyzeRedditResults
    \/ SynthesizeFinalAnswer
    \/ ApplyWrites

Spec == Init /\ [][Next]_vars

(***************************************************************************)
(* The loop of start_chatbot (src/main.py:424-447): after a run that ended  *)
(* the next line is read; exit or quit leaves the loop, anything else is    *)
(* the user_input of a new run on a newly built state.  An exception that  *)
(* leaves graph.invoke leaves start_chatbot too.                           *)
(***************************************************************************)
\* The state handed to graph.invoke with the previous run's state kept.
ReusedState(previous, user_input) ==
    [previous EXCEPT !["user_input"] = user_input]
\* The state handed to graph.invoke for a query that follows a run.
FreshState(previous, user_input) == InitialState(user_input)

NewQuery ==
    /\ mode \in {"graph", "again"}
    /\ run = "done"
    /\ \E line \in UserInputs \cup {Str("exit")} :
        IF line = Str("exit")
        THEN /\ run' = "exited"
             /\ UNCHANGED <<mode, state, pc, runs, calls, nwrites>>
        ELSE /\ run' = "running"
             /\ mode' = "again"
             /\ state' = FreshState(state, line)
             /\ pc' = [n \in Nodes |->
                        IF n \in Successors({START}) THEN "ready" ELSE "idle"]
             /\ runs' = [n \in Nodes |-> 0]
             /\ calls' = [n \in Nodes |-> NoCalls]
             /\ nwrites' = [f \in Fields |-> 0]
    /\ UNCHANGED <<envUrl, writes, scrape>>

NextChat == Next \/ NewQuery

SpecChat == Init /\ [][NextChat]_vars

(***************************************************************************)
(* A node function called directly on a state dict, as src/tests does: the *)
(* fields the node reads range over the values below (a missing key, None, *)
(* empty and non-empty values, values of another type), the other fields   *)
(* are None as in the mock_state fixture (src/tests/conftest.py:19-35).    *)
(***************************************************************************)
ResultKeys == {"google_results", "bing_results", "yandex_results", "reddit_results"}
SerpNodes == {"google_search", "bing_search", "yandex_search"}

UnitValues(f) ==
    CASE f = "user_input" -> {Absent, PyNone, Str(""), Str("q")}
      [] f \in ResultKeys ->
            {Absent, PyNone, Str(""), Str("r"), Dict("knowledge,organic", <<>>)}
      [] f = "selected_reddit_urls" ->
            {Absent, PyNone, List(<<>>), List(<<"u1", "u2">>), PyInt("7")}
      [] f = "reddit_post_data" ->
            {Absent, PyNone, Str(""), Str("p"), List(<<"post1", "post2">>)}
      [] f \in AnalysisKeys ->
            {Absent, PyNone, Str(""), Str("a"), PyInt("123"), List(<<"invalid">>)}
      [] OTHER -> {PyNone}

UnitDom(target, f) == IF f \in Reads(target) THEN UnitValues(f) ELSE {PyNone}

\* The values of a group of fields: those the node reads vary, each on its own.
UnitGroup(target, keys) ==
    {g \in [keys -> UNION {UnitDom(target, k) : k \in keys}] :
        \A k \in keys : g[k] \in UnitDom(target, k)}

InitUnit ==
    /\ mode = "unit"
    /\ \E target \in Nodes :
        /\ envUrl \in (IF target \in SerpNodes THEN BOOLEAN ELSE {TRUE})
        /\ \E ui \in UnitDom(target, "user_input"),
              sel \in UnitDom(target, "selected_reddit_urls"),
              post \in UnitDom(target, "reddit_post_data"),
              res \in UnitGroup(target, ResultKeys),
              ana \in UnitGroup(target, AnalysisKeys) :
            state = [f \in Fields |->
                    CASE f = "user_input" -> ui
                      [] f = "messages" -> List(<<>>)
                      [] f = "selected_reddit_urls" -> sel
                      [] f = "reddit_post_data" -> post
                      [] f \in ResultKeys -> res[f]
                      [] f \in AnalysisKeys -> ana[f]
                      [] OTHER -> PyNone]
        /\ pc = [n \in Nodes |-> IF n = target THEN "ready" ELSE "idle"]
    /\ writes = [n \in Nodes |-> {}]
    /\ run = "running"
    /\ runs = [n \in Nodes |-> 0]
    /\ calls = [n \in Nodes |-> NoCalls]
    /\ nwrites = [f \in Fields |-> 0]
    /\ scrape = IdleJob

SpecUnit == InitUnit /\ [][Next]_vars

(***************************************************************************)
(* scrap_reddit followed request by request                                *)
(* (src/reddit_web_operations.py:25-83): the trigger request, the status   *)
(* polls of the loop, the snapshot download.  Every HTTP answer is chosen  *)
(* when its request is made.                                               *)
(***************************************************************************)
ScrapeQueries == {Str("q"), List(<<"u1", "u2">>)}
\* What a status poll can answer: nothing (the request failed or the body is
\* empty), ready, failed, or any other status.
PollStatuses == FinalStatuses \cup {"pending"}

InitScrape ==
    /\ mode = "scrape"
    /\ envUrl = TRUE
    /\ state = InitialState(Str("q"))
    /\ pc = [n \in Nodes |-> "idle"]
    /\ writes = [n \in Nodes |-> {}]
    /\ run = "running"
    /\ runs = [n \in Nodes |-> 0]
    /\ calls = [n \in Nodes |-> NoCalls]
    /\ nwrites = [f \in Fields |-> 0]
    /\ \E op \in {POSTS, POST_COMMENTS}, q \in ScrapeQueries :
            scrape = ScrapeJob("submit", op, q)

Return(v) == [scrape EXCEPT !.phase = "returned", !.result = v]

\* range(MAX_ATTEMPTS) is used up.
CeilingOffByOne(attempt) == attempt > MAX_ATTEMPTS
CeilingReached(attempt) == attempt >= MAX_ATTEMPTS

\* The trigger step without the `if not snapshot_id` test of line 56: an
\* answer without a snapshot_id is polled for like any other.
SubmitPollsWithoutSnapshotId ==
    /\ scrape.phase = "submit"
    /\ LET sent == \/ (scrape.op = POSTS /\ IsStr(scrape.query))
                    \/ (scrape.op = POST_COMMENTS /\ IsList(scrape.query))
       IN  IF ~sent THEN scrape' = Return(Ret(PyNone))
           ELSE \E trigger \in TriggerResponses :
                scrape' =
                    IF trigger \in {"ok", "nosnap"}
                    THEN [scrape EXCEPT !.phase = "poll", !.requests = @ + 1,
                                        !.trigger = trigger]
                    ELSE [Return(Ret(PyNone)) EXCEPT !.requests = @ + 1,
                                                     !.trigger = trigger]
    /\ UNCHANGED <<mode, envUrl, state, pc, writes, run, runs, calls, nwrites>>

\* Lines 46-58: the trigger request, sent only when the query has the type
\* the operation needs, and the snapshot_id of its answer.
Submit ==
    /\ scrape.phase = "submit"
    /\ LET sent == \/ (scrape.op = POSTS /\ IsStr(scrape.query))
                    \/ (scrape.op = POST_COMMENTS /\ IsList(scrape.query))
       IN  IF ~sent THEN scrape' = Return(Ret(PyNone))
           ELSE \E trigger \in TriggerResponses :
                scrape' =
                    IF trigger = "ok"
                    THEN [scrape EXCEPT !.phase = "poll", !.requests = @ + 1,
                                        !.trigger = trigger]
                    ELSE [Return(Ret(PyNone)) EXCEPT !.requests = @ + 1,
                                                     !.trigger = trigger]
    /\ UNCHANGED <<mode, envUrl, state, pc, writes, run, runs, calls, nwrites>>

\* The loop iteration without its `elif status == "failed"` branch: a failed
\* job is polled again like a pending one.
PollIgnoresFailed ==
    /\ scrape.phase = "poll"
    /\ ~CeilingReached(scrape.attempt)
    /\ \E status \in PollStatuses :
        scrape' =
            CASE status = "none" ->
                    [Return(Ret(PyNone)) EXCEPT !.polls = @ + 1, !.lost = TRUE]
              [] status = "ready" ->
                    [scrape EXCEPT !.phase = "fetch", !.polls = @ + 1,
                                   !.ready = TRUE]
              [] status = "failed" ->
                    [scrape EXCEPT !.polls = @ + 1, !.attempt = @ + 1,
                                   !.failed = TRUE]
              [] OTHER -> [scrape EXCEPT !.polls = @ + 1, !.attempt = @ + 1]
    /\ UNCHANGED <<mode, envUrl, state, pc, writes, run, runs, calls, nwrites>>

\* Lines 60-68 and 77-80: one iteration of the loop up to its sleep.
Poll ==
    /\ scrape.phase = "poll"
    /\ ~CeilingReached(scrape.attempt)
    /\ \E status \in PollStatuses :
        scrape' =
            CASE status = "none" ->
                    [Return(Ret(PyNone)) EXCEPT !.polls = @ + 1, !.lost = TRUE]
              [] status = "ready" ->
                    [scrape EXCEPT !.phase = "fetch", !.polls = @ + 1,
                                   !.ready = TRUE]
              [] status = "failed" ->
                    [Return(Ret(PyNone)) EXCEPT !.polls = @ + 1, !.failed = TRUE]
              [] OTHER -> [scrape EXCEPT !.polls = @ + 1, !.attempt = @ + 1]
    /\ UNCHANGED <<mode, envUrl, state, pc, writes, run, runs, calls, nwrites>>

\* Lines 69-76: the snapshot download and its parsing.
Fetch ==
    /\ scrape.phase = "fetch"
    /\ \E snapshot \in SnapshotResponses :
        scrape' =
            IF snapshot \in {"none", "empty"}
            THEN [Return(Ret(PyNone)) EXCEPT !.fetches = @ + 1]
            ELSE [Return(ParseSnapshot(scrape.op, snapshot)) EXCEPT !.fetches = @ + 1]
    /\ UNCHANGED <<mode, envUrl, state, pc, writes, run, runs, calls, nwrites>>

\* Lines 82-83: the loop ran out of attempts.
GiveUp ==
    /\ scrape.phase = "poll"
    /\ CeilingReached(scrape.attempt)
    /\ scrape' = Return(Ret(PyNone))
    /\ UNCHANGED <<mode, envUrl, state, pc, writes, run, runs, calls, nwrites>>

NextScrape == Submit \/ Poll \/ Fetch \/ GiveUp

\* Every HTTP request returns (requests.get / requests.post answer or fail),
\* so a step that can be taken is taken.
SpecScrape == InitScrape /\ [][NextScrape]_vars /\ WF_vars(NextScrape)

(***************************************************************************)
(* Properties.                                                             *)
(***************************************************************************)
OutputFields == {Owned(n) : n \in Nodes}
Producer(f) == CHOOSE n \in Nodes : Owned(n) = f
Started(n) == pc[n] \in {"running", "done", "raised"}
Returned(n) == pc[n] \in {"done", "raised"}
\* n has returned and its update has been applied to the state.
Completed(n) == runs[n] >= 1 /\ pc[n] = "idle" /\ nwrites[Owned(n)] >= 1
LLMRaised(n) == \E i \in 1..Len(calls[n].llm) : calls[n].llm[i].shape = "raise"
UserInput == Get(state, "user_input", PyNone)

\* C1: whenever select_reddit_urls has been started, each of google_search,
\* bing_search, yandex_search and reddit_search has returned and its result
\* field has been merged into the state.
C1_SelectAfterAllGathering ==
    runs["select_reddit_urls"] >= 1 => \A g \in GatherNodes : Completed(g)

C1_Witness ==
    /\ mode = "graph"
    /\ pc["select_reddit_urls"] = "running"
    /\ Truthy(state["reddit_results"])

\* C2: whenever synthesize_final_answer has been started, each of the four
\* analysis nodes has returned and its *_analysis field has been merged.
C2_SynthesisAfterAllAnalyses ==
    runs["synthesize_final_answer"] >= 1 => \A a \in AnalysisNodes : Completed(a)

C2_Witness ==
    /\ mode = "graph"
    /\ pc["synthesize_final_answer"] = "running"
    /\ Truthy(state["reddit_analysis"])

\* C3: a node that has been started reads no field whose producing node has
\* not completed: every output field in its read set has been written by its
\* producer and merged before the node started.
C3_NoReadBeforeProducer ==
    \A n \in Nodes :
        Started(n) => \A f \in Reads(n) \cap OutputFields : Completed(Producer(f))

C3_Witness ==
    /\ mode = "graph"
    /\ pc["analyze_reddit_results"] = "running"
    /\ pc["retrieve_reddit_posts"] = "idle"
    /\ Truthy(state["reddit_post_data"])

\* C4: every output field has exactly one owning node; the update a node
\* returns has its owned field as its only key on every return path (and a
\* node that raises returns nothing); a field of the state changes only by
\* its owner's returned update being applied.
C4_Step ==
    /\ \A f \in OutputFields : Cardinality({n \in Nodes : Owned(n) = f}) = 1
    /\ \A n \in Nodes : pc'[n] = "done" => Keys(writes'[n]) = {Owned(n)}
    /\ \A n \in Nodes : pc'[n] = "raised" => writes'[n] = {}
    /\ \A f \in Fields :
        state'[f] # state[f] =>
            \E n \in Nodes :
                pc[n] = "done" /\ Owned(n) = f /\ <<f, state'[f]>> \in writes[n]

C4_SingleWriter == [][C4_Step]_vars

C4_Witness ==
    /\ mode = "unit"
    /\ nwrites["reddit_post_data"] = 1
    /\ state["reddit_post_data"] = Str("answer")
    /\ state["google_results"] = PyNone

\* C5: in one run every node executes exactly once and every owned field is
\* written exactly once: never more than once, and once the run has ended,
\* exactly once.
C5_EveryNodeExactlyOnce ==
    /\ \A n \in Nodes : runs[n] <= 1 /\ nwrites[Owned(n)] <= 1
    /\ run \in {"done", "crashed"} =>
        \A n \in Nodes : runs[n] = 1 /\ nwrites[Owned(n)] = 1

\* C6: a run never crashes, whatever the providers and the language model do:
\* no exception leaves graph.invoke, and a run that ended has a text as
\* final_answer.
C6_RunNeverCrashes ==
    /\ run # "crashed"
    /\ run = "done" => IsStr(state["final_answer"])

\* C7: when the language-model call of an analysis node or of
\* synthesize_final_answer raises, the node returns its owned field as "".
C7_EngineErrorGivesEmpty ==
    \A n \in AnalysisNodes \cup {"synthesize_final_answer"} :
        (Returned(n) /\ LLMRaised(n)) =>
            pc[n] = "done" /\ writes[n] = {<<Owned(n), Str("")>>}

\* C8: a gathering node called with user_input "" or None (or missing)
\* returns "" under its owned key and calls neither serp_search nor
\* scrap_reddit.
C8_EmptyInputShortCircuits ==
    \A g \in GatherNodes :
        (Returned(g) /\ UserInput \in {PyNone, Str("")}) =>
            /\ pc[g] = "done"
            /\ writes[g] = {<<Owned(g), Str("")>>}
            /\ calls[g] = NoCalls

C8_Witness ==
    /\ mode = "unit"
    /\ pc["reddit_search"] = "done"
    /\ state["user_input"] = PyNone
    /\ writes["reddit_search"] = {<<"reddit_results", Str("")>>}

EngineOf(g) ==
    CASE g = "google_search" -> GOOGLE
      [] g = "bing_search" -> BING
      [] g = "yandex_search" -> Yandex

\* C9: a gathering node called with a non-empty user_input calls its provider
\* exactly once, with that user_input (serp_search with the node's own engine,
\* scrap_reddit as a POSTS search), and a node that returns has the provider's
\* return value, unchanged, under its owned key.
C9_ProviderOnceVerbatim ==
    \A g \in GatherNodes :
        (Returned(g) /\ Truthy(UserInput)) =>
            LET log == IF g \in SerpNodes THEN calls[g].serp ELSE calls[g].scrap
            IN  /\ Len(calls[g].serp) + Len(calls[g].scrap) = 1
                /\ Len(log) = 1
                /\ log[1].query = UserInput
                /\ g \in SerpNodes => log[1].engine = EngineOf(g)
                /\ g \notin SerpNodes => log[1].op = POSTS
                /\ calls[g].llm = <<>>
                /\ pc[g] = "done" <=> ~log[1].ret.raised
                /\ pc[g] = "done" => writes[g] = {<<Owned(g), log[1].ret.val>>}

C9_Witness ==
    /\ mode = "unit"
    /\ pc["yandex_search"] = "done"
    /\ state["user_input"] = Str("q")
    /\ writes["yandex_search"] = {<<"yandex_results", Dict("knowledge,organic", <<>>)>>}

\* C10: once a gathering node has completed, its *_results field is not None.
C10_ResultsNeverNone ==
    \A g \in GatherNodes : Completed(g) => state[Owned(g)] # PyNone

SerpRaised(n) == \E i \in 1..Len(calls[n].serp) : calls[n].serp[i].ret.raised
ScrapRaised(n) == \E i \in 1..Len(calls[n].scrap) : calls[n].scrap[i].ret.raised
PromptRaised(n) == \E i \in 1..Len(calls[n].prompt) : calls[n].prompt[i] = "raise"

\* C11: when serp_search raises during google_search called with a non-empty
\* user_input, google_search raises too: it returns no update at all.
C11_ProviderErrorPropagates ==
    (Returned("google_search") /\ Truthy(UserInput) /\ SerpRaised("google_search"))
        => /\ pc["google_search"] = "raised"
           /\ writes["google_search"] = {}

C11_Witness ==
    /\ mode = "unit"
    /\ pc["google_search"] = "raised"
    /\ state["user_input"] = Str("q")
    /\ Len(calls["google_search"].serp) = 1

\* C12: select_reddit_urls returns selected_reddit_urls == [] and makes no
\* language-model call whenever reddit_results is "" or None, and also whenever
\* user_input is "" or None.
C12_EmptyInputsGiveNoSelection ==
    (/\ Returned("select_reddit_urls")
     /\ \/ state["reddit_results"] \in {PyNone, Str("")}
        \/ state["user_input"] \in {PyNone, Str("")})
        => /\ pc["select_reddit_urls"] = "done"
           /\ writes["select_reddit_urls"] = {<<"selected_reddit_urls", List(<<>>)>>}
           /\ calls["select_reddit_urls"] = NoCalls

\* C13: whatever the structured call replies, select_reddit_urls does not raise
\* and the value it returns under selected_reddit_urls is a list.
C13_SelectionAlwaysList ==
    Returned("select_reddit_urls")
        => /\ pc["select_reddit_urls"] = "done"
           /\ \A p \in writes["select_reddit_urls"] : IsList(p[2])

\* C14: when the structured language-model call of select_reddit_urls raises,
\* the node still returns, with the empty list as selected_reddit_urls.
C14_SelectionErrorGivesEmptyList ==
    (Returned("select_reddit_urls") /\ LLMRaised("select_reddit_urls"))
        => /\ pc["select_reddit_urls"] = "done"
           /\ writes["select_reddit_urls"] = {<<"selected_reddit_urls", List(<<>>)>>}

C14_Witness ==
    /\ mode = "unit"
    /\ pc["select_reddit_urls"] = "done"
    /\ calls["select_reddit_urls"].llm = <<LLMRaise>>
    /\ state["user_input"] = Str("q")

\* C15: retrieve_reddit_posts called with selected_reddit_urls [] or None
\* returns reddit_post_data == "" and calls neither scrap_reddit nor the
\* language model.
C15_NoUrlsNoRetrieval ==
    (Returned("retrieve_reddit_posts")
     /\ state["selected_reddit_urls"] \in {PyNone, List(<<>>)})
        => /\ pc["retrieve_reddit_posts"] = "done"
           /\ writes["retrieve_reddit_posts"] = {<<"reddit_post_data", Str("")>>}
           /\ calls["retrieve_reddit_posts"] = NoCalls

C15_Witness ==
    /\ mode = "unit"
    /\ pc["retrieve_reddit_posts"] = "done"
    /\ state["selected_reddit_urls"] = List(<<>>)
    /\ calls["retrieve_reddit_posts"].scrap = <<>>

\* C16: with a non-empty list of selected URLs, an exception raised by
\* scrap_reddit, by the prompt builder or by the language-model call stays
\* inside retrieve_reddit_posts, which returns reddit_post_data == "".
C16_RetrievalErrorGivesEmpty ==
    (/\ Returned("retrieve_reddit_posts")
     /\ IsList(state["selected_reddit_urls"])
     /\ Truthy(state["selected_reddit_urls"])
     /\ \/ ScrapRaised("retrieve_reddit_posts")
        \/ PromptRaised("retrieve_reddit_posts")
        \/ LLMRaised("retrieve_reddit_posts"))
        => /\ pc["retrieve_reddit_posts"] = "done"
           /\ writes["retrieve_reddit_posts"] = {<<"reddit_post_data", Str("")>>}

C16_Witness ==
    /\ mode = "unit"
    /\ pc["retrieve_reddit_posts"] = "done"
    /\ Len(calls["retrieve_reddit_posts"].scrap) = 1
    /\ calls["retrieve_reddit_posts"].prompt = <<"built">>
    /\ calls["retrieve_reddit_posts"].llm = <<LLMRaise>>

\* C17: a call of scrap_reddit makes at most MAX_ATTEMPTS status polls and
\* always returns; a call in which no poll reported ready returns None.
C17_PollingBounded ==
    /\ [](scrape.polls <= MAX_ATTEMPTS)
    /\ []((scrape.phase = "returned" /\ ~scrape.ready) => scrape.result = Ret(PyNone))
    /\ <>(scrape.phase = "returned")

C17_Witness ==
    /\ mode = "scrape"
    /\ scrape.phase = "returned"
    /\ scrape.polls = MAX_ATTEMPTS
    /\ scrape.attempt = MAX_ATTEMPTS
    /\ ~scrape.ready /\ ~scrape.failed
    /\ scrape.result = Ret(PyNone)

\* The raw-source fields of an analysis node.
SourceFields(a) ==
    CASE a = "analyze_google_results" -> {"google_results"}
      [] a = "analyze_bing_results" -> {"bing_results"}
      [] a = "analyze_yandex_results" -> {"yandex_results"}
      [] a = "analyze_reddit_results" -> {"reddit_results", "reddit_post_data"}

\* C18: an analysis node one of whose raw-source fields is "" or None returns
\* "" under its *_analysis key and makes no language-model call.
C18_EmptySourceGivesEmptyAnalysis ==
    \A a \in AnalysisNodes :
        (Returned(a) /\ \E f \in SourceFields(a) : state[f] \in {PyNone, Str("")})
            => /\ pc[a] = "done"
               /\ writes[a] = {<<Owned(a), Str("")>>}
               /\ calls[a] = NoCalls

EmptyAnalysis(v) == v \in {Absent, PyNone, Str("")}

\* C19: synthesize_final_answer called with every *_analysis field "", None
\* or missing returns final_answer == "" and makes no language-model call.
C19_NoAnalysesNoSynthesis ==
    (Returned("synthesize_final_answer")
     /\ \A k \in AnalysisKeys : EmptyAnalysis(state[k]))
        => /\ pc["synthesize_final_answer"] = "done"
           /\ writes["synthesize_final_answer"] = {<<"final_answer", Str("")>>}
           /\ calls["synthesize_final_answer"] = NoCalls

C19_Witness ==
    /\ mode = "unit"
    /\ pc["synthesize_final_answer"] = "done"
    /\ state["google_analysis"] = Absent
    /\ state["bing_analysis"] = PyNone
    /\ state["yandex_analysis"] = Str("")
    /\ state["reddit_analysis"] = PyNone
    /\ writes["synthesize_final_answer"] = {<<"final_answer", Str("")>>}

\* C20: synthesize_final_answer called with at least one *_analysis field a
\* non-empty text, whatever the other three are, calls the language model
\* exactly once, and when that call returns, final_answer is its text.
C20_SynthesisCallsEngineOnce ==
    (Returned("synthesize_final_answer")
     /\ \E k \in AnalysisKeys : IsStr(state[k]) /\ Truthy(state[k]))
        => LET llm == calls["synthesize_final_answer"].llm
           IN  /\ Len(llm) = 1
               /\ llm[1].shape = "message" =>
                    /\ pc["synthesize_final_answer"] = "done"
                    /\ writes["synthesize_final_answer"] =
                            {<<"final_answer", PyStr(llm[1].v)>>}

C20_Witness ==
    /\ mode = "unit"
    /\ pc["synthesize_final_answer"] = "done"
    /\ state["google_analysis"] = Str("a")
    /\ \A k \in AnalysisKeys \ {"google_analysis"} : EmptyAnalysis(state[k])
    /\ calls["synthesize_final_answer"].llm = <<Msg(Str("answer"))>>
    /\ writes["synthesize_final_answer"] = {<<"final_answer", Str("answer")>>}

\* What a node returns when it short-circuits.
ShortCircuit(n) ==
    {<<Owned(n), IF n = "select_reddit_urls" THEN List(<<>>) ELSE Str("")>>}

\* C21: in a run started with user_input == "" every node that returns has
\* short-circuited, no node calls a search provider, the scrape provider or
\* the language model, the run does not fail, and it ends with every node
\* executed and final_answer == "".
C21_EmptyQueryNoCalls ==
    (mode = "graph" /\ state["user_input"] = Str(""))
        => /\ run # "crashed"
           /\ \A n \in Nodes :
                /\ calls[n] = NoCalls
                /\ Returned(n) => pc[n] = "done" /\ writes[n] = ShortCircuit(n)
           /\ run = "done" =>
                /\ \A n \in Nodes : runs[n] = 1
                /\ state["final_answer"] = Str("")

C21_Witness ==
    /\ mode = "graph"
    /\ run = "done"
    /\ state["user_input"] = Str("")
    /\ state["final_answer"] = Str("")
    /\ state["selected_reddit_urls"] = List(<<>>)
    /\ \A n \in Nodes : runs[n] = 1

WebAnalysisNodes == AnalysisNodes \ {"analyze_reddit_results"}
WebSource(a) == CHOOSE f \in SourceFields(a) : TRUE

\* C22: in a run where reddit_search returned data and the structured call of
\* select_reddit_urls raised: selected_reddit_urls is []; retrieve_reddit_posts
\* returns "" without a provider call; analyze_reddit_results returns ""
\* without a language-model call; each of the other three analysis nodes whose
\* search returned data calls the language model once; and synthesis, given an
\* analysis text, calls the language model once and its text, non-empty when
\* the reply is, is the final_answer the run ends with.
C22_SelectionFailureDegrades ==
    (/\ mode = "graph"
     /\ Completed("reddit_search") /\ Truthy(state["reddit_results"])
     /\ LLMRaised("select_reddit_urls"))
        => /\ Returned("select_reddit_urls") =>
                /\ pc["select_reddit_urls"] = "done"
                /\ writes["select_reddit_urls"] = ShortCircuit("select_reddit_urls")
           /\ Completed("select_reddit_urls") =>
                state["selected_reddit_urls"] = List(<<>>)
           /\ \A n \in {"retrieve_reddit_posts", "analyze_reddit_results"} :
                Returned(n) =>
                    /\ pc[n] = "done"
                    /\ writes[n] = ShortCircuit(n)
                    /\ calls[n] = NoCalls
           /\ \A a \in WebAnalysisNodes :
                (Returned(a) /\ Truthy(state[WebSource(a)])) => Len(calls[a].llm) = 1
           /\ LET s == "synthesize_final_answer"
              IN  /\ (Returned(s) /\ \E k \in AnalysisKeys : Truthy(state[k]))
                        => Len(calls[s].llm) = 1
                  /\ (run = "done" /\ Len(calls[s].llm) = 1) =>
                        /\ state["final_answer"] = PyStr(calls[s].llm[1].v)
                        /\ Truthy(calls[s].llm[1].v) => Truthy(state["final_answer"])

C22_Witness ==
    /\ mode = "graph"
    /\ run = "done"
    /\ LLMRaised("select_reddit_urls")
    /\ Truthy(state["reddit_results"])
    /\ state["selected_reddit_urls"] = List(<<>>)
    /\ state["reddit_post_data"] = Str("")
    /\ state["reddit_analysis"] = Str("")
    /\ \A a \in WebAnalysisNodes : state[Owned(a)] = Str("answer")
    /\ state["final_answer"] = Str("answer")

\* C23: within a run, once a node has completed the value of its owned field
\* does not change any more, and user_input never changes.
C23_Step ==
    /\ \A n \in Nodes : Completed(n) => state'[Owned(n)] = state[Owned(n)]
    /\ state'["user_input"] = state["user_input"]

C23_WrittenValuesFinal == [][C23_Step]_vars

C23_Witness ==
    /\ mode = "graph"
    /\ run = "done"
    /\ state["user_input"] = Str("q")
    /\ state["google_results"] = Dict("knowledge,organic", <<>>)
    /\ state["bing_results"] = PyNone
    /\ state["final_answer"] = Str("answer")

\* C29: a run that follows another run in start_chatbot starts from a state
\* with messages empty and every field but user_input None, whatever the
\* previous run wrote: until a node of the new run has its update applied,
\* the state is the initial state of its user_input.
C29_Step ==
    (run = "done" /\ run' = "running") =>
        /\ state' = InitialState(state'["user_input"])
        /\ state'["messages"] = List(<<>>)
        /\ \A f \in OutputFields : state'[f] = PyNone

C29_EveryRunStartsFresh ==
    /\ [][C29_Step]_vars
    /\ []((run = "running" /\ \A f \in Fields : nwrites[f] = 0)
            => state = InitialState(state["user_input"]))

C29_Witness ==
    /\ mode = "again"
    /\ run = "running"
    /\ \A n \in Nodes : runs[n] = 0
    /\ state["user_input"] = Str("q")
    /\ state["final_answer"] = PyNone

\* C30: the nodes of one step return updates with pairwise disjoint keys, and
\* when the step ends every one of these updates is in the merged state,
\* which depends on nothing but the updates (not on the order in which the
\* nodes started or returned); the merge never fails on a doubly written key.
C30_Step ==
    LET ran == {n \in Nodes : pc[n] = "done"}
        all == UNION {writes[n] : n \in ran}
    IN  /\ \A n, m \in Nodes :
            (n # m /\ pc'[n] = "done" /\ pc'[m] = "done")
                => Keys(writes'[n]) \cap Keys(writes'[m]) = {}
        /\ (run = "running" /\ ran # {} /\ \A n \in Nodes : pc[n] \in {"idle", "done"})
            => /\ run' # "crashed"
               /\ \A p \in all : state'[p[1]] = p[2]
               /\ \A f \in Fields \ Keys(all) : state'[f] = state[f]

C30_SiblingWritesAllMerged == [][C30_Step]_vars

C30_Witness ==
    /\ mode = "graph"
    /\ pc["select_reddit_urls"] = "running"
    /\ state["google_results"] = Dict("knowledge,organic", <<>>)
    /\ state["bing_results"] = PyNone
    /\ state["yandex_results"] = Dict("knowledge,organic", <<>>)
    /\ state["reddit_results"] = Dict("parsed_posts", <<"u1", "u2">>)

NonEmptyComments(v) == v.t = "dict" /\ v.s = "parsed_comments" /\ Len(v.l) > 0

\* C24: retrieve_reddit_posts called with a non-empty list of URLs, when the
\* provider call returns: the node returns a text as reddit_post_data; with a
\* non-empty parsed_comments list (and the prompt built) the language model is
\* called exactly once and, when it returns, its text is reddit_post_data;
\* with None or an empty parsed_comments list the language model is not
\* called and reddit_post_data is "".
C24_RetrievalDigestsComments ==
    LET n == "retrieve_reddit_posts"
        urls == state["selected_reddit_urls"]
    IN  (/\ Returned(n) /\ IsList(urls) /\ Truthy(urls)
         /\ ~ScrapRaised(n) /\ ~PromptRaised(n))
            => /\ pc[n] = "done"
               /\ Len(calls[n].scrap) = 1
               /\ \A p \in writes[n] : p[1] = "reddit_post_data" /\ IsStr(p[2])
               /\ IF NonEmptyComments(calls[n].scrap[1].ret.val)
                  THEN /\ Len(calls[n].llm) = 1
                       /\ writes[n] =
                            {<<"reddit_post_data",
                               IF calls[n].llm[1].shape = "message"
                               THEN PyStr(calls[n].llm[1].v) ELSE Str("")>>}
                  ELSE /\ calls[n].llm = <<>>
                       /\ writes[n] = {<<"reddit_post_data", Str("")>>}

C24_Witness ==
    /\ mode = "unit"
    /\ pc["retrieve_reddit_posts"] = "done"
    /\ Len(calls["retrieve_reddit_posts"].scrap) = 1
    /\ NonEmptyComments(calls["retrieve_reddit_posts"].scrap[1].ret.val)
    /\ calls["retrieve_reddit_posts"].llm = <<Msg(Str("answer"))>>
    /\ writes["retrieve_reddit_posts"] = {<<"reddit_post_data", Str("answer")>>}

\* C25: an analysis node called with every raw-source field non-empty calls
\* the language model exactly once (no second call after a failure) and, when
\* the call returns, writes its text to the owned *_analysis field.
C25_AnalysisCallsEngineOnce ==
    \A a \in AnalysisNodes :
        (Returned(a) /\ \A f \in SourceFields(a) : Truthy(state[f]))
            => /\ Len(calls[a].llm) = 1
               /\ calls[a].llm[1].shape = "message" =>
                    /\ pc[a] = "done"
                    /\ writes[a] = {<<Owned(a), PyStr(calls[a].llm[1].v)>>}

\* C26: select_reddit_urls called with a non-empty user_input and non-empty
\* reddit_results, when the structured call returns a RedditURLAnalysis or a
\* raw mapping whose selected_urls is a list, returns exactly that list.
C26_SelectionKeepsList ==
    LET n == "select_reddit_urls"
    IN  (/\ Returned(n)
         /\ IsStr(state["user_input"]) /\ Truthy(state["user_input"])
         /\ Truthy(state["reddit_results"])
         /\ Len(calls[n].llm) = 1
         /\ calls[n].llm[1].shape \in {"model", "dict"}
         /\ IsList(calls[n].llm[1].v))
            => /\ pc[n] = "done"
               /\ writes[n] = {<<"selected_reddit_urls", calls[n].llm[1].v>>}

C26_Witness ==
    /\ mode = "unit"
    /\ pc["select_reddit_urls"] = "done"
    /\ state["user_input"] = Str("q")
    /\ calls["select_reddit_urls"].llm = <<[shape |-> "dict", v |-> List(<<"u1", "u2">>)]>>
    /\ writes["select_reddit_urls"] = {<<"selected_reddit_urls", List(<<"u1", "u2">>)>>}

\* C27: synthesize_final_answer called with every *_analysis field None,
\* missing, "" or not a text returns final_answer == "" without calling the
\* language model; and whatever it returns as final_answer is a text.
C27_NonTextCountsAsEmpty ==
    LET n == "synthesize_final_answer"
    IN  /\ (Returned(n) /\ \A k \in AnalysisKeys : ~IsStr(state[k]) \/ ~Truthy(state[k]))
            => /\ pc[n] = "done"
               /\ writes[n] = {<<"final_answer", Str("")>>}
               /\ calls[n] = NoCalls
        /\ \A p \in writes[n] : IsStr(p[2])

\* C28: a call of scrap_reddit goes from the trigger request to polling and
\* from polling to the download or to its return; a poll that reports failed
\* ends the call with None and nothing is polled or downloaded after it; the
\* snapshot is downloaded at most once and only after a poll reported ready;
\* the call returns a value other than None only after a poll reported ready
\* and the download returned data.
C28_State ==
    /\ scrape.fetches <= 1
    /\ scrape.fetches = 1 => scrape.ready
    /\ scrape.ready => ~scrape.failed /\ scrape.phase \in {"fetch", "returned"}
    /\ scrape.failed =>
        /\ scrape.phase = "returned"
        /\ scrape.result = Ret(PyNone)
        /\ scrape.fetches = 0
    /\ scrape.result # Ret(PyNone) =>
        /\ scrape.phase = "returned"
        /\ scrape.ready /\ scrape.fetches = 1

C28_Step ==
    /\ <<scrape.phase, scrape'.phase>> \in
            {<<"submit", "poll">>, <<"submit", "returned">>,
             <<"poll", "poll">>, <<"poll", "fetch">>, <<"poll", "returned">>,
             <<"fetch", "returned">>}
    /\ scrape.failed => scrape'.polls = scrape.polls
    /\ scrape'.fetches > scrape.fetches => scrape.phase = "fetch" /\ scrape.ready

C28_PollingJobLifecycle == [](C28_State) /\ [][C28_Step]_vars

C28_Witness ==
    /\ mode = "scrape"
    /\ scrape.phase = "returned"
    /\ scrape.failed
    /\ scrape.polls = 2
    /\ scrape.result = Ret(PyNone)

\* C31: in every state of a run of the graph, a non-empty reddit_post_data
\* comes with a non-empty list as selected_reddit_urls, and a non-empty
\* selected_reddit_urls comes with non-empty reddit_results; so whenever
\* analyze_reddit_results has called the language model, reddit_search had
\* returned data and select_reddit_urls had chosen at least one URL.
C31_RedditDataChain ==
    mode = "graph" =>
        /\ Truthy(state["reddit_post_data"]) =>
                IsList(state["selected_reddit_urls"]) /\ Truthy(state["selected_reddit_urls"])
        /\ Truthy(state["selected_reddit_urls"]) => Truthy(state["reddit_results"])
        /\ calls["analyze_reddit_results"].llm # <<>> =>
                /\ Truthy(state["reddit_results"])
                /\ IsList(state["selected_reddit_urls"])
                /\ Truthy(state["selected_reddit_urls"])

C31_Witness ==
    /\ mode = "graph"
    /\ pc["analyze_reddit_results"] = "done"
    /\ Len(calls["analyze_reddit_results"].llm) = 1
    /\ state["reddit_post_data"] = Str("answer")
    /\ state["selected_reddit_urls"] = List(<<"u1", "u2">>)

RECURSIVE LLMCallCount(_)
LLMCallCount(ns) ==
    IF ns = {} THEN 0
    ELSE LET n == CHOOSE x \in ns : TRUE
         IN  Len(calls[n].llm) + LLMCallCount(ns \ {n})

\* C32: in a run every node calls the language model at most once, the
\* gathering nodes never, so that a run makes at most seven calls; and once
\* synthesize_final_answer has made its call no other node makes one: the
\* call is made while every other node is idle, and none follows it.
C32_State ==
    /\ \A n \in Nodes : Len(calls[n].llm) <= 1
    /\ \A g \in GatherNodes : calls[g].llm = <<>>
    /\ LLMCallCount(Nodes) <= 7

C32_Step ==
    LET s == "synthesize_final_answer"
    IN  /\ calls[s].llm # <<>> => \A n \in Nodes : calls'[n].llm = calls[n].llm
        /\ calls'[s].llm # calls[s].llm =>
                \A n \in Nodes \ {s} : pc[n] = "idle" /\ calls'[n].llm = calls[n].llm

C32_AtMostSevenEngineCalls == [](C32_State) /\ [][C32_Step]_vars

C32_Witness ==
    /\ mode = "graph"
    /\ run = "done"
    /\ LLMCallCount(Nodes) = 7
    /\ Len(calls["synthesize_final_answer"].llm) = 1

TypeMismatch ==
    ~(\/ (scrape.op = POSTS /\ IsStr(scrape.query))
      \/ (scrape.op = POST_COMMENTS /\ IsList(scrape.query)))

\* C33: a call of scrap_reddit whose query has not the type its operation
\* needs sends no request at all, makes no poll and returns None; a call whose
\* trigger request got no answer, an empty answer or an answer without a
\* snapshot_id makes no poll and returns None; and a status request that got
\* no answer ends the call with None, with no poll and no download after it.
C33_State ==
    /\ (TypeMismatch /\ scrape.phase # "submit") =>
        /\ scrape.phase = "returned" /\ scrape.result = Ret(PyNone)
        /\ scrape.requests = 0 /\ scrape.polls = 0 /\ scrape.fetches = 0
    /\ scrape.trigger \in {"none", "empty", "nosnap"} =>
        /\ scrape.phase = "returned" /\ scrape.result = Ret(PyNone)
        /\ scrape.requests = 1 /\ scrape.polls = 0 /\ scrape.fetches = 0
    /\ scrape.polls > 0 => scrape.trigger = "ok" /\ ~TypeMismatch
    /\ scrape.lost =>
        /\ scrape.phase = "returned" /\ scrape.result = Ret(PyNone)
        /\ scrape.fetches = 0

C33_Step == scrape.lost => scrape'.polls = scrape.polls

C33_NoPollWithoutJob == [](C33_State) /\ [][C33_Step]_vars

C33_Witness ==
    /\ mode = "scrape"
    /\ scrape.phase = "returned"
    /\ scrape.trigger = "nosnap"
    /\ scrape.requests = 1
    /\ scrape.polls = 0
    /\ scrape.result = Ret(PyNone)

====
